---------------------------- MODULE Spec2Model ----------------------------
(***************************************************************************)
(* Cyclone: sharded threshold evaluation on a stream of metric samples.   *)
(*                                                                         *)
(* The repository holds three generations of the program:                 *)
(*   src/main.go                               the ingest loop and router *)
(*   src/lib/cyclone/cyclone.go                run, process (with the     *)
(*                                             derivation units), commit, *)
(*                                             cmpInt, cmpFlp             *)
(*   src/internal/cyclone/cyclone__process.go  process with the discard   *)
(*                                             filter and the in-flight   *)
(*                                             tracker (delay)            *)
(*   src/unnamed/part_000                      Start                      *)
(* Each is modelled by its own actions.  The specifications:             *)
(*   SpecInternal  one worker with the process of internal/cyclone        *)
(*   SpecLib       one worker with the process of lib/cyclone             *)
(*   Spec          one worker of either generation                        *)
(*   SpecFaults    two workers of lib/cyclone on a feed with faults,      *)
(*                 with fairness                                          *)
(*   SpecEval      the level scan of one rule for one sample              *)
(*   SpecCmp       cmpInt and cmpFlp on one value and one threshold       *)
(*   SpecMain      the ingest loop of main                                *)
(***************************************************************************)
EXTENDS Integers, Sequences, FiniteSets, TLC

(***************************************************************************)
(* Bounds of the model.                                                    *)
(***************************************************************************)
\* envelopes delivered to the shard workers in one run
MaxEnvelopes == 2
\* thresholds and sample values range over 0..MaxThr (values one further)
MaxThr == 2
\* levels present in the thresholds of one enumerated rule
MaxLevels == 2
\* messages the ingest loop consumes in one run
MaxMessages == 3
\* heartbeat ticks in one run of the ingest loop
MaxTicks == 1
\* asset ids range over -2..MaxAsset
MaxAsset == 3
\* runtime.NumCPU() ranges over 1..MaxCPU
MaxCPU == 2

(***************************************************************************)
(* Program constants.                                                      *)
(***************************************************************************)
\* fmt "%.3f": a real value is kept as its number of thousandths
Milli == 1000
\* resp.StatusCode >= 209 is logged as a failure
StatusError == 209

\* the level scan order of lvlloop
LevelOrder == <<"9", "8", "7", "6", "5", "4", "3", "2", "1", "0">>

Levels == {LevelOrder[i] : i \in 1..Len(LevelOrder)}

\* strconv.ParseInt(alarmLevel, 10, 64)
ParseInt(s) ==
  CASE s = "0" -> 0 [] s = "1" -> 1 [] s = "2" -> 2 [] s = "3" -> 3
    [] s = "4" -> 4 [] s = "5" -> 5 [] s = "6" -> 6 [] s = "7" -> 7
    [] s = "8" -> 8 [] s = "9" -> 9

\* the six predicates the comparison functions know
KnownPredicates == {"<", "<=", "==", ">=", ">", "!="}

\* fmt.Sprintf("%d", value)
FmtD(value) == [fmt |-> "%d", v |-> value]

\* fmt.Sprintf("%.3f", value), value in thousandths
FmtF3(value) == [fmt |-> "%.3f", v |-> value]

\* the empty string returned with an unknown predicate
FmtNone == [fmt |-> "", v |-> 0]

\* cmpInt compares an integer value against a threshold
cmpInt(pred, value, threshold) ==
  CASE pred = "<"  -> [broken |-> value < threshold, fVal |-> FmtD(value)]
    [] pred = "<=" -> [broken |-> value <= threshold, fVal |-> FmtD(value)]
    [] pred = "==" -> [broken |-> value = threshold, fVal |-> FmtD(value)]
    [] pred = ">=" -> [broken |-> value >= threshold, fVal |-> FmtD(value)]
    [] pred = ">"  -> [broken |-> value > threshold, fVal |-> FmtD(value)]
    [] pred = "!=" -> [broken |-> value # threshold, fVal |-> FmtD(value)]
    [] OTHER       -> [broken |-> FALSE, fVal |-> FmtNone]

\* a mutant of cmpFlp: >= is evaluated as >
cmpFlpStrict(pred, value, threshold) ==
  LET fthreshold == threshold * Milli IN
  CASE pred = "<"  -> [broken |-> value < fthreshold, fVal |-> FmtF3(value)]
    [] pred = "<=" -> [broken |-> value <= fthreshold, fVal |-> FmtF3(value)]
    [] pred = "==" -> [broken |-> value = fthreshold, fVal |-> FmtF3(value)]
    [] pred = ">=" -> [broken |-> value > fthreshold, fVal |-> FmtF3(value)]
    [] pred = ">"  -> [broken |-> value > fthreshold, fVal |-> FmtF3(value)]
    [] pred = "!=" -> [broken |-> value # fthreshold, fVal |-> FmtF3(value)]
    [] OTHER       -> [broken |-> FALSE, fVal |-> FmtNone]

\* cmpFlp compares a floating point value (in thousandths) against a
\* threshold; fthreshold := float64(threshold)
cmpFlp(pred, value, threshold) ==
  LET fthreshold == threshold * Milli IN
  CASE pred = "<"  -> [broken |-> value < fthreshold, fVal |-> FmtF3(value)]
    [] pred = "<=" -> [broken |-> value <= fthreshold, fVal |-> FmtF3(value)]
    [] pred = "==" -> [broken |-> value = fthreshold, fVal |-> FmtF3(value)]
    [] pred = ">=" -> [broken |-> value >= fthreshold, fVal |-> FmtF3(value)]
    [] pred = ">"  -> [broken |-> value > fthreshold, fVal |-> FmtF3(value)]
    [] pred = "!=" -> [broken |-> value # fthreshold, fVal |-> FmtF3(value)]
    [] OTHER       -> [broken |-> FALSE, fVal |-> FmtNone]

(***************************************************************************)
(* Samples.  A path is a name and, for the metrics derived per mountpoint  *)
(* ("disk.free:" + mountpoint), the mountpoint appended to it.             *)
(***************************************************************************)
Path(n) == [name |-> n, mnt |-> ""]

\* strings.HasPrefix(m.Path, prefix)
HasPrefix(path, prefix) == path.name = prefix

HeartbeatPath == Path("_internal.cyclone.heartbeat")

\* the switch of process that marks the metrics evaluated against every rule
internalMetric(path) ==
  \/ path \in {Path("cpu.ctx.per.second"), Path("cpu.usage.percent"),
               Path("memory.usage.percent")}
  \/ path \in {Path("/sys/cpu/blocked"), Path("/sys/cpu/uptime"),
               Path("/sys/load/300s"), Path("/sys/load/60s"),
               Path("/sys/load/900s"), Path("/sys/load/running_proc"),
               Path("/sys/load/total_proc")}
  \/ HasPrefix(path, "disk.free:")
  \/ HasPrefix(path, "disk.read.per.second:")
  \/ HasPrefix(path, "disk.usage.percent:")
  \/ HasPrefix(path, "disk.write.per.second:")

\* the gate of thrloop: the rule is evaluated for an internal metric, or
\* when the first tag of the sample is the rule's id
dispatchAlarm(m, rule) ==
  \/ internalMetric(m.path)
  \/ (Len(m.tags) > 0 /\ m.tags[1] = rule.ID)

\* one comparison of lvlloop: the switch on m.Type; another type leaves
\* broken and fVal as they were
compare(m, rule, thrval, prev) ==
  CASE m.type \in {"integer", "long"} -> cmpInt(rule.Predicate, m.val, thrval)
    [] m.type = "real" -> cmpFlp(rule.Predicate, m.val, thrval)
    [] OTHER -> prev

RECURSIVE lvlloopFirst(_, _, _, _)
\* a mutant of lvlloop: scans the levels upwards from "0"
lvlloopFirst(m, rule, i, prev) ==
  IF i < 1
    THEN [alarmLevel |-> "0", brokenThr |-> 0, fVal |-> prev.fVal]
    ELSE LET lvl == LevelOrder[i] IN
         IF lvl \notin DOMAIN rule.Thresholds
           THEN lvlloopFirst(m, rule, i - 1, prev)
           ELSE LET thrval == rule.Thresholds[lvl]
                    r == compare(m, rule, thrval, prev)
                IN IF r.broken
                     THEN [alarmLevel |-> lvl, brokenThr |-> thrval,
                           fVal |-> r.fVal]
                     ELSE lvlloopFirst(m, rule, i - 1, r)

RECURSIVE lvlloopFrom(_, _, _, _)
\* lvlloop from position i of LevelOrder on: absent levels are skipped, the
\* first broken level ends the scan
lvlloopFrom(m, rule, i, prev) ==
  IF i > Len(LevelOrder)
    THEN [alarmLevel |-> "0", brokenThr |-> 0, fVal |-> prev.fVal]
    ELSE LET lvl == LevelOrder[i] IN
         IF lvl \notin DOMAIN rule.Thresholds
           THEN lvlloopFrom(m, rule, i + 1, prev)
           ELSE LET thrval == rule.Thresholds[lvl]
                    r == compare(m, rule, thrval, prev)
                IN IF r.broken
                     THEN [alarmLevel |-> lvl, brokenThr |-> thrval,
                           fVal |-> r.fVal]
                     ELSE lvlloopFrom(m, rule, i + 1, r)

\* a mutant of lvlloop
lvlloopUpwards(m, rule) ==
  lvlloopFirst(m, rule, Len(LevelOrder), [broken |-> FALSE, fVal |-> FmtNone])

\* lvlloop: alarmLevel = "0", broken = false, fVal = `` before the scan
lvlloop(m, rule) ==
  lvlloopFrom(m, rule, 1, [broken |-> FALSE, fVal |-> FmtNone])

\* a mutant of Message: the threshold printed is the rule's lowest one
MessageLowestThr(m, rule, scan) ==
  IF scan.alarmLevel = "0"
    THEN [text |-> "Ok.", path |-> Path(""), fVal |-> FmtNone,
          predicate |-> "", threshold |-> 0]
    ELSE [text |-> "Metric %s has broken threshold. Value %s %s %d",
          path |-> m.path, fVal |-> scan.fVal,
          predicate |-> rule.Predicate,
          threshold |->
            rule.Thresholds[CHOOSE l \in DOMAIN rule.Thresholds :
                              \A k \in DOMAIN rule.Thresholds :
                                ParseInt(l) <= ParseInt(k)]]

\* the message of an alarm event
Message(m, rule, scan) ==
  IF scan.alarmLevel = "0"
    THEN [text |-> "Ok.", path |-> Path(""), fVal |-> FmtNone,
          predicate |-> "", threshold |-> 0]
    ELSE [text |-> "Metric %s has broken threshold. Value %s %s %d",
          path |-> m.path, fVal |-> scan.fVal,
          predicate |-> rule.Predicate, threshold |-> scan.brokenThr]

\* the AlarmEvent built for a rule that passed the gate
AlarmEvent(m, rule) ==
  LET scan == lvlloop(m, rule) IN
  [EventID |-> rule.ID,
   Level   |-> ParseInt(scan.alarmLevel),
   Message |-> Message(m, rule, scan),
   Oncall  |-> IF rule.Oncall = "" THEN "No oncall information available"
                                   ELSE rule.Oncall,
   Check   |-> m.path]


(***************************************************************************)
(* Transport envelopes, and the inputs the model draws.                    *)
(***************************************************************************)
Shards == {0, 1}

\* msg.Value == nil
NilValue == [bytes |-> "nil"]

\* bytes that are no JSON document
Garbage == [bytes |-> "garbage"]

\* the JSON encoding of a sample
Encode(m) == [bytes |-> "json", m |-> m]

\* json.Unmarshal(msg.Value, m)
Unmarshal(value) ==
  IF value.bytes = "json" THEN [err |-> FALSE, m |-> value.m]
                          ELSE [err |-> TRUE]

Sample(path, asset, type, val, tags, ts) ==
  [path |-> path, asset |-> asset, type |-> type, val |-> val,
   tags |-> tags, ts |-> ts]

\* m.LookupID(): the key of the sample's rules, from its path and asset
LookupID(m) == <<m.asset, m.path>>

NoisePath == Path("/sys/custom/noise")

\* the samples delivered to the workers running the process of
\* internal/cyclone
InternalSamples ==
  {Sample(Path("/sys/load/60s"), 1, "integer", MaxThr, <<>>, 1),
   Sample(Path("/sys/custom/latency"), 1, "real", MaxThr * Milli, <<"r1">>, 1),
   Sample(NoisePath, 1, "integer", 1, <<>>, 1),
   Sample(HeartbeatPath, 0, "", 0, <<>>, 0)}

\* the samples delivered to the workers running the process of lib/cyclone
LibSamples ==
  {Sample(Path("/sys/load/60s"), 1, "integer", MaxThr, <<>>, 1),
        Sample(Path("/sys/cpu/ctx"), 1, "long", 1, <<>>, 1),
        Sample(Path("/sys/cpu/ctx"), 1, "long", 1 + MaxThr, <<>>, 2),
        Sample(Path("/sys/cpu/ctx"), 2, "long", 1, <<>>, 1),
        Sample(Path("/sys/cpu/count/user"), 1, "long", 1, <<>>, 1),
        Sample(Path("/sys/memory/total"), 1, "long", MaxThr, <<>>, 1),
        Sample(Path("/sys/disk/blk_total"), 1, "long", MaxThr, <<"/">>, 1),
        Sample(Path("/sys/disk/blk_used"), 1, "long", 1, <<"/">>, 1),
        Sample(Path("/sys/disk/blk_used"), 1, "long", 1, <<>>, 1),
        Sample(Path("/sys/disk/blk_used"), 1, "long", 1, <<"/var">>, 1),
        Sample(Path("/sys/load/900s"), 1, "string", 0, <<>>, 1),
        Sample(HeartbeatPath, 0, "", 0, <<>>, 0)}

\* every payload the model knows for a version of process
Payloads(ver) ==
  {NilValue, Garbage}
  \cup {Encode(m) : m \in IF ver = "lib" THEN LibSamples ELSE InternalSamples}

\* the payloads of a run with failing workers: an empty payload, one that
\* is no JSON document, a sample that is evaluated, and two disk samples
\* that make the disk unit emit
FaultPayloads ==
  {NilValue, Garbage,
   Encode(Sample(Path("/sys/load/60s"), 1, "integer", MaxThr, <<>>, 1)),
   Encode(Sample(Path("/sys/disk/blk_total"), 1, "long", MaxThr, <<"/">>, 1)),
   Encode(Sample(Path("/sys/disk/blk_used"), 1, "long", 1, <<"/">>, 1))}

\* the rule sets the lookup service answers with
Rule(id, pred, thresholds, oncall) ==
  [ID |-> id, Predicate |-> pred, Thresholds |-> thresholds, Oncall |-> oncall]

RuleR1 == Rule("r1", ">=", ("1" :> 1) @@ ("3" :> MaxThr), "")

RuleR2 == Rule("r2", "<", ("0" :> 1) @@ ("5" :> 1), "team")

\* c.Lookup(lid): nil when the lookup failed, else the rules (possibly
\* none); order is the order in which range iterates over the map
LookupResults ==
  {[nil |-> TRUE, rules |-> {}, order |-> <<>>],
   [nil |-> FALSE, rules |-> {}, order |-> <<>>],
   [nil |-> FALSE, rules |-> {RuleR1, RuleR2}, order |-> <<RuleR1, RuleR2>>],
   [nil |-> FALSE, rules |-> {RuleR1, RuleR2}, order |-> <<RuleR2, RuleR1>>]}

\* a heartbeat is made by the supervisor and carries no commit channel
Envelope(w, offset, value) ==
  [topic |-> "metrics", partition |-> w, offset |-> offset, value |-> value,
   commit |-> IF value.bytes = "json" /\ value.m.path = HeartbeatPath
                THEN "nil" ELSE "chan"]

\* &erebos.Commit{Topic, Partition, Offset}
Commit(msg) ==
  [topic |-> msg.topic, partition |-> msg.partition, offset |-> msg.offset]

(***************************************************************************)
(* The derivation units (packages cpu, mem and disk of lib/cyclone).       *)
(* A unit keeps, per asset, the latest observation of each counter.        *)
(***************************************************************************)
EmptyMap == [x \in {} |-> 0]

Obs(m) == [val |-> m.val, ts |-> m.ts]

CPUPaths ==
  {Path("/sys/cpu/count/idle"), Path("/sys/cpu/count/iowait"),
   Path("/sys/cpu/count/irq"), Path("/sys/cpu/count/nice"),
   Path("/sys/cpu/count/softirq"), Path("/sys/cpu/count/system"),
   Path("/sys/cpu/count/user")}

MemPaths ==
  {Path("/sys/memory/active"), Path("/sys/memory/buffers"),
   Path("/sys/memory/cached"), Path("/sys/memory/free"),
   Path("/sys/memory/inactive"), Path("/sys/memory/swapfree"),
   Path("/sys/memory/swaptotal"), Path("/sys/memory/total")}

DiskPaths ==
  {Path("/sys/disk/blk_total"), Path("/sys/disk/blk_used"),
   Path("/sys/disk/blk_read"), Path("/sys/disk/blk_wrtn")}

\* a derived sample: the asset, tags and timestamp of the sample it is from
Derived(m, path, val, type) ==
  Sample(path, m.asset, type, val, m.tags, m.ts)

\* cpu.CTX{}
CTXZero == [seen |-> FALSE, val |-> 0, ts |-> 0]

\* ctx.Update(m): the rate since the previous observation; the first
\* observation, and one after a counter reset, emit nothing
CTXUpdate(ctx, m) ==
  IF ~ctx.seen
    THEN [unit |-> [seen |-> TRUE, val |-> m.val, ts |-> m.ts], out |-> <<>>]
  ELSE IF m.val < ctx.val
    THEN [unit |-> [seen |-> TRUE, val |-> m.val, ts |-> m.ts], out |-> <<>>]
  ELSE IF m.ts <= ctx.ts
    THEN [unit |-> ctx, out |-> <<>>]
  ELSE [unit |-> [seen |-> TRUE, val |-> m.val, ts |-> m.ts],
        out |-> <<Derived(m, Path("cpu.ctx.per.second"),
                          ((m.val - ctx.val) * Milli) \div (m.ts - ctx.ts),
                          "real")>>]

Value(vals, path) == IF path \in DOMAIN vals THEN vals[path].val ELSE 0

\* cu.Update(m); cu.Calculate(): the usage once all seven counters are
\* present for the latest timestamp; a complete set emits once
CPUUpdate(cu, m) ==
  LET vals == (m.path :> Obs(m)) @@ cu
      idle == Value(vals, Path("/sys/cpu/count/idle"))
      all == Value(vals, Path("/sys/cpu/count/iowait"))
             + Value(vals, Path("/sys/cpu/count/irq"))
             + Value(vals, Path("/sys/cpu/count/nice"))
             + Value(vals, Path("/sys/cpu/count/softirq"))
             + Value(vals, Path("/sys/cpu/count/system"))
             + Value(vals, Path("/sys/cpu/count/user"))
      complete == /\ DOMAIN vals = CPUPaths
                  /\ \A p \in CPUPaths : vals[p].ts = m.ts
  IN IF complete /\ all + idle > 0
       THEN [unit |-> EmptyMap,
             out |-> <<Derived(m, Path("cpu.usage.percent"),
                               (100 * all * Milli) \div (all + idle),
                               "real")>>]
       ELSE [unit |-> vals, out |-> <<>>]

\* mm.Update(m); mm.Calculate(): the usage when the total is known
MemUpdate(mm, m) ==
  LET vals == (m.path :> Obs(m)) @@ mm
      total == Value(vals, Path("/sys/memory/total"))
      used == total - Value(vals, Path("/sys/memory/free"))
                    - Value(vals, Path("/sys/memory/buffers"))
                    - Value(vals, Path("/sys/memory/cached"))
  IN [unit |-> vals,
      out |-> IF total > 0
                THEN <<Derived(m, Path("memory.usage.percent"),
                               (100 * used * Milli) \div total, "real")>>
                ELSE <<>>]

\* "disk.free:" + mountpoint
DiskPath(prefix, mpt) == [name |-> prefix, mnt |-> mpt]

\* d.Update(m); d.Calculate(): free and usage once total and used are
\* known, a rate against the previous observation of the same counter
DiskUpdate(d, m) ==
  LET mpt == m.tags[1]
      vals == (m.path :> Obs(m)) @@ d
      total == Value(vals, Path("/sys/disk/blk_total"))
      used == Value(vals, Path("/sys/disk/blk_used"))
      sizes == /\ m.path \in {Path("/sys/disk/blk_total"),
                              Path("/sys/disk/blk_used")}
               /\ {Path("/sys/disk/blk_total"), Path("/sys/disk/blk_used")}
                    \subseteq DOMAIN vals
      rate == /\ m.path \in {Path("/sys/disk/blk_read"),
                             Path("/sys/disk/blk_wrtn")}
              /\ m.path \in DOMAIN d
              /\ d[m.path].ts < m.ts
      free == IF sizes
                THEN <<Derived(m, DiskPath("disk.free:", mpt), total - used,
                               "long")>>
                ELSE <<>>
      usage == IF sizes /\ total > 0
                 THEN <<Derived(m, DiskPath("disk.usage.percent:", mpt),
                                (100 * used * Milli) \div total, "real")>>
                 ELSE <<>>
      persec == IF rate
                  THEN <<Derived(m,
                           DiskPath(IF m.path = Path("/sys/disk/blk_read")
                                      THEN "disk.read.per.second:"
                                      ELSE "disk.write.per.second:", mpt),
                           ((m.val - d[m.path].val) * Milli)
                             \div (m.ts - d[m.path].ts), "real")>>
                  ELSE <<>>
  IN [unit |-> vals, out |-> free \o usage \o persec]

(***************************************************************************)
(* process: what one call does, as a record of its effects.                *)
(***************************************************************************)
\* a call that returns at once, with nothing done
NoEffect ==
  [branch |-> "", err |-> FALSE, commits |-> 0, uses |-> 0,
   discarded |-> 0, processed |-> 0, heartbeat |-> 0, lookups |-> <<>>,
   evals |-> 0, evaluated |-> {}, built |-> {}, dispatched |-> {},
   alarms |-> 0, deriv |-> <<>>, injected |-> <<>>, blocked |-> FALSE,
   sample |-> <<>>]

\* a mutant of thrloop: testmode leaves the loop before the rule is counted
thrloopTestModeFirst(c, m, thr, tracked) ==
  LET gated == IF c.TestMode THEN {}
                             ELSE {r \in thr.rules : dispatchAlarm(m, r)}
      events == {AlarmEvent(m, r) : r \in gated}
  IN [NoEffect EXCEPT !.branch = "evaluated", !.processed = 1,
        !.lookups = <<LookupID(m)>>, !.evals = 1,
        !.evaluated = {r.ID : r \in gated}, !.built = events,
        !.dispatched = events, !.alarms = Cardinality(events),
        !.uses = IF tracked THEN Cardinality(events) ELSE 0]

RECURSIVE thrloopUntil(_, _, _, _, _)
\* thrloop that is left at the first rule that does not pass the gate
thrloopUntil(c, m, order, i, acc) ==
  IF i > Len(order) THEN acc
  ELSE LET rule == order[i] IN
    IF ~dispatchAlarm(m, rule)
      THEN acc
      ELSE LET al == AlarmEvent(m, rule)
               counted == [acc EXCEPT !.evaluated = @ \cup {rule.ID},
                                      !.built = @ \cup {al}]
           IN IF c.TestMode
                THEN thrloopUntil(c, m, order, i + 1, counted)
                ELSE thrloopUntil(c, m, order, i + 1,
                       [counted EXCEPT !.dispatched = @ \cup {al},
                                       !.alarms = @ + 1])

\* a mutant of thrloop: break thrloop in the place of continue thrloop
thrloopBreaks(c, m, thr, tracked) ==
  LET r == thrloopUntil(c, m, thr.order, 1,
             [NoEffect EXCEPT !.branch = "evaluated", !.processed = 1,
                !.lookups = <<LookupID(m)>>, !.evals = 1, !.sample = <<m>>])
  IN [r EXCEPT !.uses = IF tracked THEN r.alarms ELSE 0]

RECURSIVE thrloopFrom(_, _, _, _, _)
\* thrloop from position i of the iteration order on; acc holds what the
\* iterations before did.  alarmLevel, brokenThr, broken and fVal are
\* declared anew in every iteration.
thrloopFrom(c, m, order, i, acc) ==
  IF i > Len(order) THEN acc
  ELSE LET rule == order[i] IN
    IF ~dispatchAlarm(m, rule)
      THEN thrloopFrom(c, m, order, i + 1, acc)
      ELSE LET al == AlarmEvent(m, rule)
               counted == [acc EXCEPT !.evaluated = @ \cup {rule.ID},
                                      !.built = @ \cup {al}]
           IN IF c.TestMode
                THEN thrloopFrom(c, m, order, i + 1, counted)
                ELSE thrloopFrom(c, m, order, i + 1,
                       [counted EXCEPT !.dispatched = @ \cup {al},
                                       !.alarms = @ + 1])

\* thrloop: the rules that pass the gate are evaluated, an alarm event is
\* built for each, and dispatched unless testmode is set
thrloop(c, m, thr, tracked) ==
  LET r == thrloopFrom(c, m, thr.order, 1,
             [NoEffect EXCEPT !.branch = "evaluated", !.processed = 1,
                !.lookups = <<LookupID(m)>>, !.evals = 1, !.sample = <<m>>])
  IN [r EXCEPT !.uses = IF tracked THEN r.alarms ELSE 0]

\* the end of process, from the lookup on
evaluate(c, m, thr, tracked) ==
  IF thr.nil
    THEN [NoEffect EXCEPT !.branch = "lookupfailed", !.processed = 1,
            !.lookups = <<LookupID(m)>>]
  ELSE IF thr.rules = {}
    THEN [NoEffect EXCEPT !.branch = "norules", !.processed = 1,
            !.lookups = <<LookupID(m)>>]
  ELSE thrloop(c, m, thr, tracked)

\* a mutant of processInternal: the discard check comes after the lookup
processInternalLateDiscard(c, msg, thr) ==
  IF msg.value = NilValue
    THEN [NoEffect EXCEPT !.branch = "empty", !.uses = 1, !.commits = 1]
  ELSE LET u == Unmarshal(msg.value) IN
  IF u.err
    THEN [NoEffect EXCEPT !.branch = "parse", !.err = TRUE]
  ELSE IF u.m.path = HeartbeatPath
    THEN [NoEffect EXCEPT !.branch = "heartbeat", !.heartbeat = 1]
  ELSE IF u.m.path \in c.discard
    THEN [NoEffect EXCEPT !.branch = "discard", !.discarded = 1,
            !.uses = 1, !.commits = 1, !.processed = 1,
            !.lookups = <<LookupID(u.m)>>]
  ELSE evaluate(c, u.m, thr, TRUE)

\* process of internal/cyclone
processInternal(c, msg, thr) ==
  IF msg.value = NilValue
    THEN [NoEffect EXCEPT !.branch = "empty", !.uses = 1, !.commits = 1]
  ELSE LET u == Unmarshal(msg.value) IN
  IF u.err
    THEN [NoEffect EXCEPT !.branch = "parse", !.err = TRUE]
  ELSE IF u.m.path \in c.discard
    THEN [NoEffect EXCEPT !.branch = "discard", !.discarded = 1,
            !.uses = 1, !.commits = 1]
  ELSE IF u.m.path = HeartbeatPath
    THEN [NoEffect EXCEPT !.branch = "heartbeat", !.heartbeat = 1]
  ELSE evaluate(c, u.m, thr, TRUE)


\* the unit kept for key, or the unit's zero value
Unit(units, key, zero) == IF key \in DOMAIN units THEN units[key] ELSE zero

\* capacity of the buffered channel internalInput
InternalInputCap == 1

\* the derivation switch of process: the sample is replaced by what its
\* unit emits; the samples a disk unit emits are sent to internalInput
derive(c, m) ==
  CASE m.path = Path("/sys/cpu/ctx") ->
         LET u == CTXUpdate(Unit(c.units.ctx, m.asset, CTXZero), m)
         IN [m |-> u.out, injected |-> <<>>, blocked |-> FALSE,
             deriv |-> <<[kind |-> "ctx", key |-> m.asset, unit |-> u.unit]>>]
    [] m.path \in CPUPaths ->
         LET u == CPUUpdate(Unit(c.units.cpu, m.asset, EmptyMap), m)
         IN [m |-> u.out, injected |-> <<>>, blocked |-> FALSE,
             deriv |-> <<[kind |-> "cpu", key |-> m.asset, unit |-> u.unit]>>]
    [] m.path \in MemPaths ->
         LET u == MemUpdate(Unit(c.units.mem, m.asset, EmptyMap), m)
         IN [m |-> u.out, injected |-> <<>>, blocked |-> FALSE,
             deriv |-> <<[kind |-> "mem", key |-> m.asset, unit |-> u.unit]>>]
    [] m.path \in DiskPaths ->
         IF Len(m.tags) = 0
           THEN [m |-> <<>>, injected |-> <<>>, blocked |-> FALSE,
                 deriv |-> <<>>]
           ELSE LET key == <<m.asset, m.tags[1]>>
                    d == Unit(c.units.dsk, key, EmptyMap)
                    u == DiskUpdate(d, m)
                    room == InternalInputCap - c.queued
                IN IF Len(u.out) > room
                     THEN [m |-> <<>>, injected |-> SubSeq(u.out, 1, room),
                           blocked |-> TRUE,
                           deriv |-> <<[kind |-> "dsk", key |-> key,
                                        unit |-> d]>>]
                     ELSE [m |-> <<>>, injected |-> u.out, blocked |-> FALSE,
                           deriv |-> <<[kind |-> "dsk", key |-> key,
                                        unit |-> u.unit]>>]
    [] OTHER -> [m |-> <<m>>, injected |-> <<>>, blocked |-> FALSE,
                 deriv |-> <<>>]

\* a mutant of processLib: the processed meter is marked before the
\* heartbeat is recognised
processLibCountsHeartbeat(c, msg, thr) ==
  IF msg.value = NilValue
    THEN [NoEffect EXCEPT !.branch = "empty", !.commits = 1]
  ELSE LET u == Unmarshal(msg.value) IN
  IF u.err
    THEN [NoEffect EXCEPT !.branch = "parse", !.err = TRUE]
  ELSE IF u.m.path = HeartbeatPath
    THEN [NoEffect EXCEPT !.branch = "heartbeat", !.heartbeat = 1,
            !.processed = 1]
  ELSE LET d == derive(c, u.m) IN
  IF d.blocked
    THEN [NoEffect EXCEPT !.branch = "blocked", !.processed = 1,
            !.deriv = d.deriv, !.injected = d.injected, !.blocked = TRUE]
  ELSE IF d.m = <<>>
    THEN [NoEffect EXCEPT !.branch = "consumed", !.processed = 1,
            !.deriv = d.deriv, !.injected = d.injected]
  ELSE [evaluate(c, d.m[1], thr, FALSE) EXCEPT !.deriv = d.deriv]

\* a mutant of processLib: the sample decoded from the envelope, not the
\* derived one, is looked up and evaluated
processLibEvaluatesRaw(c, msg, thr) ==
  IF msg.value = NilValue
    THEN [NoEffect EXCEPT !.branch = "empty", !.commits = 1]
  ELSE LET u == Unmarshal(msg.value) IN
  IF u.err
    THEN [NoEffect EXCEPT !.branch = "parse", !.err = TRUE]
  ELSE IF u.m.path = HeartbeatPath
    THEN [NoEffect EXCEPT !.branch = "heartbeat", !.heartbeat = 1]
  ELSE LET d == derive(c, u.m) IN
  IF d.blocked
    THEN [NoEffect EXCEPT !.branch = "blocked", !.processed = 1,
            !.deriv = d.deriv, !.injected = d.injected, !.blocked = TRUE]
  ELSE IF d.m = <<>>
    THEN [NoEffect EXCEPT !.branch = "consumed", !.processed = 1,
            !.deriv = d.deriv, !.injected = d.injected]
  ELSE [evaluate(c, u.m, thr, FALSE) EXCEPT !.deriv = d.deriv]

\* process of lib/cyclone
processLib(c, msg, thr) ==
  IF msg.value = NilValue
    THEN [NoEffect EXCEPT !.branch = "empty", !.commits = 1]
  ELSE LET u == Unmarshal(msg.value) IN
  IF u.err
    THEN [NoEffect EXCEPT !.branch = "parse", !.err = TRUE]
  ELSE IF u.m.path = HeartbeatPath
    THEN [NoEffect EXCEPT !.branch = "heartbeat", !.heartbeat = 1]
  ELSE LET d == derive(c, u.m) IN
  IF d.blocked
    THEN [NoEffect EXCEPT !.branch = "blocked", !.processed = 1,
            !.deriv = d.deriv, !.injected = d.injected, !.blocked = TRUE]
  ELSE IF d.m = <<>>
    THEN [NoEffect EXCEPT !.branch = "consumed", !.processed = 1,
            !.deriv = d.deriv, !.injected = d.injected]
  ELSE [evaluate(c, d.m[1], thr, FALSE) EXCEPT !.deriv = d.deriv]

\* the process the workers of this run were built with
process(c, msg, thr) ==
  IF c.version = "lib" THEN processLib(c, msg, thr)
                       ELSE processInternal(c, msg, thr)

(***************************************************************************)
(* The evaluation of one rule, on its own.                                 *)
(***************************************************************************)
VARIABLES
  evM,          \* the sample
  evRule,       \* the rule
  evOut         \* the level scan's result, once made

evalVars == <<evM, evRule, evOut>>

(***************************************************************************)
(* The state of the ingest loop of main.                                   *)
(***************************************************************************)
VARIABLES
  numCPU,       \* runtime.NumCPU(): the handlers are 0..numCPU-1
  mainPc,       \* "loop", "blocked" on a send, or "closed"
  eventCount,   \* messages consumed; the offset of the latest
  offsets,      \* offsets[topic][partition] of the one partition consumed
  inbox,        \* inbox[i]: what handler i received on its Input, in order
  committed,    \* the offsets given to consumer.CommitUpto, in order
  ticks         \* heartbeat ticks so far

mainVars == <<numCPU, mainPc, eventCount, offsets, inbox, committed, ticks>>

(***************************************************************************)
(* The state of the shard workers.                                         *)
(***************************************************************************)
VARIABLES
  feed,         \* which payloads the transport delivers in this run
  version,      \* which process the workers run: "lib" or "internal"
  Config,       \* c.Config.Cyclone: TestMode, DiscardMetrics
  Handlers,     \* the registry of running handlers
  pc,           \* pc[w]: where worker w is in Start and run
  discard,      \* discard[w]: c.discard
  delay,        \* delay[w]: c.delay, the Use() not yet matched by a Done()
  Shutdown,     \* the Shutdown channel is closed
  InputClosed,  \* InputClosed[w]: the Input channel of w is closed
  Death,        \* the errors sent on the Death channel, by worker
  delivered,    \* envelopes delivered so far; the next offset is one more
  last,         \* last[w]: the envelope of the latest call of process, the
                \* lookup's answer when it was asked, and the call's effects
  tasks,        \* the goroutines started and not yet finished
  finished,     \* the goroutines that returned, each with its outcome
  commits,      \* the acknowledgements sent on the commit channel, in order
  meters,       \* the metrics registry
  updateEval,   \* updateEval[id]: calls of c.updateEval(id)
  heartbeats,   \* heartbeats[w]: calls of c.heartbeat()
  lookups,      \* calls of c.Lookup
  posts,        \* http.Post calls issued
  units,        \* units[w]: CTXData, CPUData, MemData and DskData of w
  internalInput \* internalInput[w]: the derived samples queued in w

\* what a run is configured with, and what no step of a worker changes
cfgVars == <<feed, version, Config, Handlers, evalVars, mainVars>>

workerVars ==
  <<cfgVars, pc, discard, delay, Shutdown, InputClosed, Death, delivered,
    last, tasks, finished, commits, meters, updateEval, heartbeats, lookups,
    posts, units, internalInput>>

RuleIDs == {"r1", "r2"}

\* the maps made with the worker, all empty
NoUnits == [ctx |-> EmptyMap, cpu |-> EmptyMap, mem |-> EmptyMap,
            dsk |-> EmptyMap]

\* no call of process yet
NoCall == [called |-> FALSE]

\* the discard lists a configuration may hold
DiscardConfigs == {{NoisePath}, {NoisePath, HeartbeatPath}}

\* the workers W are constructed and not yet started; the transport will
\* deliver the payloads of feed f
InitFed(W, ver, discards, f) ==
  /\ version = ver
  /\ feed = f
  /\ Config \in [TestMode : BOOLEAN, DiscardMetrics : discards]
  /\ Handlers \in {{}, W}
  /\ pc = [w \in Shards |-> IF w \in W THEN "start" ELSE "none"]
  /\ discard = [w \in Shards |-> {}]
  /\ delay = [w \in Shards |-> 0]
  /\ Shutdown = FALSE
  /\ InputClosed = [w \in Shards |-> FALSE]
  /\ Death = <<>>
  /\ delivered = 0
  /\ last = [w \in Shards |-> NoCall]
  /\ tasks = {}
  /\ finished = {}
  /\ commits = <<>>
  /\ meters = [processed |-> 0, discarded |-> 0, evaluations |-> 0,
               alarms |-> 0]
  /\ updateEval = [id \in RuleIDs |-> 0]
  /\ heartbeats = [w \in Shards |-> 0]
  /\ lookups = 0
  /\ posts = 0
  /\ units = [w \in Shards |-> NoUnits]
  /\ internalInput = [w \in Shards |-> <<>>]

\* the workers W are constructed and not yet started
InitWorkers(W, ver, discards) == InitFed(W, ver, discards, "all")

(***************************************************************************)
(* Start.                                                                  *)
(***************************************************************************)
\* Start: the handlers are registered and the lookup client starts; the
\* discard map is built from the configuration, then run is entered
StartRun(w) ==
  /\ pc[w] = "start"
  /\ Handlers # {}
  /\ pc' = [pc EXCEPT ![w] = "run"]
  /\ discard' = [discard EXCEPT ![w] = Config.DiscardMetrics]
  /\ delay' = [delay EXCEPT ![w] = 0]
  /\ UNCHANGED <<cfgVars, Shutdown, InputClosed, Death, delivered, last,
                 tasks, finished, commits, meters, updateEval, heartbeats,
                 lookups, posts, units, internalInput>>

\* Start: no handlers are registered, or c.lookup.Start() returns an error
StartFail(w) ==
  /\ pc[w] = "start"
  /\ pc' = [pc EXCEPT ![w] = "startdeath"]
  /\ discard' = [discard EXCEPT ![w] =
                   IF Handlers = {} THEN {} ELSE Config.DiscardMetrics]
  /\ UNCHANGED <<cfgVars, delay, Shutdown, InputClosed, Death, delivered,
                 last, tasks, finished, commits, meters, updateEval,
                 heartbeats, lookups, posts, units, internalInput>>

\* Start: c.Death <- err
StartDeath(w) ==
  /\ pc[w] = "startdeath"
  /\ pc' = [pc EXCEPT ![w] = "startawait"]
  /\ Death' = Append(Death, w)
  /\ UNCHANGED <<cfgVars, discard, delay, Shutdown, InputClosed, delivered,
                 last, tasks, finished, commits, meters, updateEval,
                 heartbeats, lookups, posts, units, internalInput>>

\* Start: <-c.Shutdown; return
StartReturn(w) ==
  /\ pc[w] = "startawait"
  /\ Shutdown
  /\ pc' = [pc EXCEPT ![w] = "done"]
  /\ UNCHANGED <<cfgVars, discard, delay, Shutdown, InputClosed, Death,
                 delivered, last, tasks, finished, commits, meters,
                 updateEval, heartbeats, lookups, posts, units, internalInput>>


(***************************************************************************)
(* run and process.                                                        *)
(***************************************************************************)
\* the payloads of the envelopes the transport delivers in this run
Values ==
  IF feed = "all" THEN Payloads(version)
  ELSE IF feed = "faults" THEN FaultPayloads
  ELSE {}

\* the worker as process reads it
Cyclone(w) ==
  [version |-> version, TestMode |-> Config.TestMode, discard |-> discard[w],
   units |-> units[w], queued |-> Len(internalInput[w])]

\* the goroutine of a commit: go c.commit(msg)
CommitTask(w, msg, out) ==
  [kind |-> "commit", w |-> w, ack |-> Commit(msg), chan |-> msg.commit,
   tracked |-> out.uses > 0, alarm |-> <<>>]

\* the goroutine of an alarm: go func(a AlarmEvent)
DispatchTask(w, msg, out, a) ==
  [kind |-> "dispatch", w |-> w, ack |-> Commit(msg), chan |-> msg.commit,
   tracked |-> out.uses > 0, alarm |-> <<a>>]

\* a mutant of Derive: storing a unit drops the units of the other keys
DeriveDropsOthers(u, deriv) ==
  IF deriv = <<>> THEN u
  ELSE LET d == deriv[1] IN
    CASE d.kind = "ctx" -> [u EXCEPT !.ctx = (d.key :> d.unit)]
      [] d.kind = "cpu" -> [u EXCEPT !.cpu = (d.key :> d.unit)]
      [] d.kind = "mem" -> [u EXCEPT !.mem = (d.key :> d.unit)]
      [] d.kind = "dsk" -> [u EXCEPT !.dsk = (d.key :> d.unit)]

\* the unit maps after the updates of one call
Derive(u, deriv) ==
  IF deriv = <<>> THEN u
  ELSE LET d == deriv[1] IN
    CASE d.kind = "ctx" -> [u EXCEPT !.ctx = (d.key :> d.unit) @@ u.ctx]
      [] d.kind = "cpu" -> [u EXCEPT !.cpu = (d.key :> d.unit) @@ u.cpu]
      [] d.kind = "mem" -> [u EXCEPT !.mem = (d.key :> d.unit) @@ u.mem]
      [] d.kind = "dsk" -> [u EXCEPT !.dsk = (d.key :> d.unit) @@ u.dsk]

\* the effects of one call of process on the state
Apply(w, msg, thr, out) ==
  /\ last' = [last EXCEPT ![w] =
                [called |-> TRUE, msg |-> msg, out |-> out,
                 answer |-> IF out.lookups = <<>> THEN <<>>
                            ELSE <<[nil |-> thr.nil, rules |-> thr.rules]>>]]
  /\ delivered' = delivered + 1
  /\ tasks' = tasks
       \cup (IF out.commits > 0 THEN {CommitTask(w, msg, out)} ELSE {})
       \cup {DispatchTask(w, msg, out, a) : a \in out.dispatched}
  /\ delay' = [delay EXCEPT ![w] = @ + out.uses]
  /\ meters' = [processed   |-> meters.processed + out.processed,
                discarded   |-> meters.discarded + out.discarded,
                evaluations |-> meters.evaluations + out.evals,
                alarms      |-> meters.alarms + out.alarms]
  /\ updateEval' = [id \in RuleIDs |->
                      updateEval[id] + IF id \in out.evaluated THEN 1 ELSE 0]
  /\ heartbeats' = [heartbeats EXCEPT ![w] = @ + out.heartbeat]
  /\ lookups' = lookups + Len(out.lookups)
  /\ units' = [units EXCEPT ![w] = Derive(@, out.deriv)]
  /\ internalInput' = [internalInput EXCEPT ![w] = @ \o out.injected]

\* runloop, case msg := <-c.Input with an envelope: process(msg); an error
\* is sent on the Death channel next
RunInput(w, value, thr) ==
  /\ pc[w] = "run"
  /\ ~InputClosed[w]
  /\ delivered < MaxEnvelopes
  /\ LET msg == Envelope(w, delivered + 1, value)
         out == process(Cyclone(w), msg, thr)
     IN /\ Apply(w, msg, thr, out)
        /\ pc' = [pc EXCEPT ![w] = IF out.blocked THEN "blocked"
                                   ELSE IF out.err THEN "death" ELSE "run"]
  /\ UNCHANGED <<cfgVars, discard, Shutdown, InputClosed, Death, finished,
                 commits, posts>>

\* runloop, case msg := <-c.Input on the closed channel: continue
RunClosedInput(w) ==
  /\ pc[w] = "run"
  /\ InputClosed[w]
  /\ UNCHANGED workerVars

\* runloop, case <-c.Shutdown: goto drainloop
RunShutdown(w) ==
  /\ pc[w] = "run"
  /\ Shutdown
  /\ pc' = [pc EXCEPT ![w] = "drain"]
  /\ UNCHANGED <<cfgVars, discard, delay, Shutdown, InputClosed, Death,
                 delivered, last, tasks, finished, commits, meters,
                 updateEval, heartbeats, lookups, posts, units, internalInput>>

\* runloop: c.Death <- err
DeathSend(w) ==
  /\ pc[w] = "death"
  /\ pc' = [pc EXCEPT ![w] = "await"]
  /\ Death' = Append(Death, w)
  /\ UNCHANGED <<cfgVars, discard, delay, Shutdown, InputClosed, delivered,
                 last, tasks, finished, commits, meters, updateEval,
                 heartbeats, lookups, posts, units, internalInput>>

\* runloop: <-c.Shutdown; break runloop, which leads into drainloop
AwaitShutdown(w) ==
  /\ pc[w] = "await"
  /\ Shutdown
  /\ pc' = [pc EXCEPT ![w] = "drain"]
  /\ UNCHANGED <<cfgVars, discard, delay, Shutdown, InputClosed, Death,
                 delivered, last, tasks, finished, commits, meters,
                 updateEval, heartbeats, lookups, posts, units, internalInput>>

\* drainloop, an envelope: c.process(msg), its error ignored
DrainInput(w, value, thr) ==
  /\ pc[w] = "drain"
  /\ ~InputClosed[w]
  /\ delivered < MaxEnvelopes
  /\ LET msg == Envelope(w, delivered + 1, value)
         out == process(Cyclone(w), msg, thr)
     IN /\ Apply(w, msg, thr, out)
        /\ pc' = [pc EXCEPT ![w] = IF out.blocked THEN "blocked" ELSE "drain"]
  /\ UNCHANGED <<cfgVars, discard, Shutdown, InputClosed, Death, finished,
                 commits, posts>>

\* drainloop, the channel is closed: break drainloop
DrainClosed(w) ==
  /\ pc[w] = "drain"
  /\ InputClosed[w]
  /\ pc' = [pc EXCEPT ![w] = "done"]
  /\ UNCHANGED <<cfgVars, discard, delay, Shutdown, InputClosed, Death,
                 delivered, last, tasks, finished, commits, meters,
                 updateEval, heartbeats, lookups, posts, units, internalInput>>


(***************************************************************************)
(* The goroutines process starts.                                          *)
(***************************************************************************)
\* what the alarm destination may answer to a POST
StatusCodes == {200, 208, StatusError, 500}

\* the ways the goroutine of an alarm ends
Responses ==
  {[err |-> "encode", status |-> 0], [err |-> "transport", status |-> 0]}
  \cup {[err |-> "", status |-> code] : code \in StatusCodes}

\* how the goroutine of an alarm returns on a response
Outcome(resp) ==
  IF resp.err # "" THEN resp.err
  ELSE IF resp.status >= StatusError THEN "status" ELSE "ok"

\* whether the goroutine calls c.delay.Done() before it returns
Released(t, outcome) ==
  /\ t.tracked
  /\ (t.kind = "dispatch" => outcome = "ok")

\* the goroutine of a commit: the send on msg.Commit, then Done() when the
\* commit is tracked.  A send on a nil channel never completes.
RunCommit(t) ==
  /\ t \in tasks
  /\ t.kind = "commit"
  /\ t.chan = "chan"
  /\ commits' = Append(commits, t.ack)
  /\ tasks' = tasks \ {t}
  /\ finished' = finished \cup {[task |-> t, outcome |-> "sent"]}
  /\ delay' = [delay EXCEPT ![t.w] = IF Released(t, "sent") THEN @ - 1 ELSE @]
  /\ UNCHANGED <<cfgVars, pc, discard, Shutdown, InputClosed, Death,
                 delivered, last, meters, updateEval, heartbeats, lookups,
                 posts, units, internalInput>>

\* the goroutine of an alarm: encode, POST, log the answer
RunDispatch(t, resp) ==
  /\ t \in tasks
  /\ t.kind = "dispatch"
  /\ posts' = IF resp.err = "encode" THEN posts ELSE posts + 1
  /\ tasks' = tasks \ {t}
  /\ finished' = finished \cup {[task |-> t, outcome |-> Outcome(resp)]}
  /\ delay' = [delay EXCEPT ![t.w] =
                 IF Released(t, Outcome(resp)) THEN @ - 1 ELSE @]
  /\ UNCHANGED <<cfgVars, pc, discard, Shutdown, InputClosed, Death,
                 delivered, last, commits, meters, updateEval, heartbeats,
                 lookups, units, internalInput>>

(***************************************************************************)
(* The supervisor: it closes Shutdown, then the Input channels.            *)
(***************************************************************************)
SignalShutdown ==
  /\ ~Shutdown
  /\ Shutdown' = TRUE
  /\ UNCHANGED <<cfgVars, pc, discard, delay, InputClosed, Death, delivered,
                 last, tasks, finished, commits, meters, updateEval,
                 heartbeats, lookups, posts, units, internalInput>>

CloseInput(w) ==
  /\ pc[w] # "none"
  /\ Shutdown
  /\ ~InputClosed[w]
  /\ InputClosed' = [InputClosed EXCEPT ![w] = TRUE]
  /\ UNCHANGED <<cfgVars, pc, discard, delay, Shutdown, Death, delivered,
                 last, tasks, finished, commits, meters, updateEval,
                 heartbeats, lookups, posts, units, internalInput>>

WorkerNext ==
  \/ \E w \in Shards : StartRun(w)
  \/ \E w \in Shards : StartFail(w)
  \/ \E w \in Shards : StartDeath(w)
  \/ \E w \in Shards : StartReturn(w)
  \/ \E w \in Shards, value \in Values, thr \in LookupResults :
       RunInput(w, value, thr)
  \/ \E w \in Shards : RunClosedInput(w)
  \/ \E w \in Shards : RunShutdown(w)
  \/ \E w \in Shards : DeathSend(w)
  \/ \E w \in Shards : AwaitShutdown(w)
  \/ \E w \in Shards, value \in Values, thr \in LookupResults :
       DrainInput(w, value, thr)
  \/ \E w \in Shards : DrainClosed(w)
  \/ \E t \in tasks : RunCommit(t)
  \/ \E t \in tasks, resp \in Responses : RunDispatch(t, resp)
  \/ SignalShutdown
  \/ \E w \in Shards : CloseInput(w)

vars == <<workerVars>>

\* no rule is evaluated on its own
IdleEval ==
  /\ evM = Sample(Path(""), 0, "", 0, <<>>, 0)
  /\ evRule = Rule("", "", EmptyMap, "")
  /\ evOut = [done |-> FALSE]

\* the ingest loop is not run
IdleMain ==
  /\ numCPU = 0
  /\ mainPc = "closed"
  /\ eventCount = 0
  /\ offsets = 0
  /\ inbox = [i \in Shards |-> <<>>]
  /\ committed = <<>>
  /\ ticks = 0

\* no worker is constructed
IdleWorkers ==
  /\ InitWorkers({}, "lib", {{}})
  /\ Config.TestMode = FALSE
  /\ Handlers = {}

\* one worker running the process of internal/cyclone
InitInternal ==
  InitWorkers({0}, "internal", DiscardConfigs) /\ IdleEval /\ IdleMain

\* one worker running the process of lib/cyclone
InitLib == InitWorkers({0}, "lib", {{}}) /\ IdleEval /\ IdleMain

Next == WorkerNext

SpecInternal == InitInternal /\ [][Next]_vars

SpecLib == InitLib /\ [][Next]_vars

\* one worker, of either generation
Spec == (InitInternal \/ InitLib) /\ [][Next]_vars

\* two workers running the process of lib/cyclone on a feed with faults.
\* The Death channel is made and received from outside this code; a send
\* on it is taken to complete.
InitFaults == InitFed(Shards, "lib", {{}}, "faults") /\ IdleEval /\ IdleMain

\* a step of Start in worker w
StartStep(w) ==
  \/ StartRun(w)
  \/ StartFail(w)
  \/ StartDeath(w)
  \/ StartReturn(w)

\* a step of run in worker w that is no read of the closed input in the
\* run loop: select picks at random among the cases that are ready, so the
\* shutdown case is not passed over for ever
RunProgress(w) ==
  \/ \E value \in Values, thr \in LookupResults : RunInput(w, value, thr)
  \/ RunShutdown(w)
  \/ DeathSend(w)
  \/ AwaitShutdown(w)
  \/ \E value \in Values, thr \in LookupResults : DrainInput(w, value, thr)
  \/ DrainClosed(w)

\* every goroutine that can run does run; the supervisor, once it has given
\* the shutdown signal, closes every input
Fairness ==
  /\ \A w \in Shards : WF_vars(StartStep(w))
  /\ \A w \in Shards : WF_vars(RunProgress(w))
  /\ \A w \in Shards : WF_vars(CloseInput(w))

SpecFaults == InitFaults /\ [][Next]_vars /\ Fairness

(***************************************************************************)
(* The level scan on its own: one rule, one sample that passed the gate.   *)
(***************************************************************************)
\* the thresholds of a rule: at most MaxLevels of the ten levels present
ThresholdMaps ==
  UNION {[D -> 0..MaxThr] :
           D \in {L \in SUBSET Levels : Cardinality(L) <= MaxLevels}}

\* the predicates of the enumerated rules: the known ones and another
Predicates == KnownPredicates \cup {"=~"}

\* the numeric samples evaluated: whole values, and for a real also halves
EvalSamples ==
  {Sample(Path("/sys/load/60s"), 1, t, v, <<>>, 1) :
     t \in {"integer", "long"}, v \in 0..(MaxThr + 1)}
  \cup {Sample(Path("/sys/load/60s"), 1, "real", v * Milli + h, <<>>, 1) :
          v \in 0..(MaxThr + 1), h \in {0, Milli \div 2}}

InitEval ==
  /\ evM \in EvalSamples
  /\ evRule \in {Rule("r1", p, t, "") : p \in Predicates, t \in ThresholdMaps}
                \cup {Rule("r1", ">=", t, "team") : t \in ThresholdMaps}
  /\ evOut = [done |-> FALSE]
  /\ IdleWorkers
  /\ IdleMain

\* thrloop for a rule that passed the gate: the level scan and the event
Evaluate ==
  /\ ~evOut.done
  /\ dispatchAlarm(evM, evRule)
  /\ evOut' = [done |-> TRUE, scan |-> lvlloop(evM, evRule),
               event |-> AlarmEvent(evM, evRule)]
  /\ UNCHANGED <<evM, evRule, mainVars>>
  /\ UNCHANGED <<feed, version, Config, Handlers, pc, discard, delay,
                 Shutdown, InputClosed, Death, delivered, last, tasks,
                 finished, commits, meters, updateEval, heartbeats, lookups,
                 posts, units, internalInput>>

NextEval == Evaluate

SpecEval == InitEval /\ [][NextEval]_vars


(***************************************************************************)
(* The two comparisons on one integer value and one threshold.             *)
(***************************************************************************)
\* float64(a) of an integer a, in thousandths
ToReal(a) == a * Milli

\* the integer samples and the rules of one threshold compared
InitCmp ==
  /\ evM \in {Sample(Path("/sys/load/60s"), 1, "integer", a, <<>>, 1) :
                a \in (0 - MaxThr - 1)..(MaxThr + 1)}
  /\ evRule \in {Rule("r1", p, "1" :> b, "") :
                   p \in Predicates, b \in (0 - MaxThr)..MaxThr}
  /\ evOut = [done |-> FALSE]
  /\ IdleWorkers
  /\ IdleMain

\* the value is compared by cmpInt, and as a real by cmpFlp
CompareBoth ==
  /\ ~evOut.done
  /\ evOut' = [done |-> TRUE,
               int |-> cmpInt(evRule.Predicate, evM.val,
                              evRule.Thresholds["1"]),
               flp |-> cmpFlp(evRule.Predicate, ToReal(evM.val),
                              evRule.Thresholds["1"])]
  /\ UNCHANGED <<evM, evRule, mainVars>>
  /\ UNCHANGED <<feed, version, Config, Handlers, pc, discard, delay,
                 Shutdown, InputClosed, Death, delivered, last, tasks,
                 finished, commits, meters, updateEval, heartbeats, lookups,
                 posts, units, internalInput>>

NextCmp == CompareBoth

SpecCmp == InitCmp /\ [][NextCmp]_vars


(***************************************************************************)
(* The ingest loop of main: it consumes the messages of one partition,     *)
(* routes the samples to the handlers and commits the offsets.             *)
(***************************************************************************)
\* conf.MetricsMaxAge, in ticks of the model's clock
MetricsMaxAge == 1

IgnoredPath == Path("/sys/disk/fs")

\* the switch on m.Path that sets m to nil
ignored(path) ==
  path \in {IgnoredPath, Path("/sys/disk/mounts"), Path("/sys/net/mac"),
            Path("/sys/net/rx_bytes"), Path("/sys/net/rx_packets"),
            Path("/sys/net/tx_bytes"), Path("/sys/net/tx_packets"),
            Path("/sys/memory/swapcached"), Path("/sys/load/last_pid"),
            Path("/sys/cpu/idletime"), Path("/sys/cpu/MHz"),
            Path("/sys/net/bondslave"), Path("/sys/net/connstates/ipv4"),
            Path("/sys/net/connstates/ipv6"), Path("/sys/net/duplex"),
            Path("/sys/net/ipv4_addr"), Path("/sys/net/ipv6_addr"),
            Path("/sys/net/speed"), Path("/sys/net/ipvs/conn/count"),
            Path("/sys/net/ipvs/conn/servercount"),
            Path("/sys/net/ipvs/conn/serverstatecount"),
            Path("/sys/net/ipvs/conn/statecount"),
            Path("/sys/net/ipvs/conn/vipconns"),
            Path("/sys/net/ipvs/conn/vipstatecount"),
            Path("/sys/net/ipvs/count"), Path("/sys/net/ipvs/detail"),
            Path("/sys/net/ipvs/state"), Path("/sys/net/quagga/bgp/announce"),
            Path("/sys/net/quagga/bgp/connage"),
            Path("/sys/net/quagga/bgp/connstate"),
            Path("/sys/net/quagga/bgp/neighbour")}

\* time.Now().UTC().Add(ageCutOff).After(m.TS.UTC())
tooOld(now, m) == now - MetricsMaxAge > m.ts

\* the remainder of Go: it has the sign of the dividend
GoRem(a, n) == IF a >= 0 THEN a % n ELSE 0 - ((0 - a) % n)

\* int(m.AssetId) % runtime.NumCPU()
handlerIndex(asset, n) == GoRem(asset, n)

\* the values of the messages consumed: no metric, an ignored one, an old
\* one, and fresh ones of every asset
MainValues ==
  {Garbage,
   Encode(Sample(IgnoredPath, 1, "integer", 1, <<>>, MaxMessages)),
   Encode(Sample(Path("/sys/load/60s"), 1, "integer", 1, <<>>, 0))}
  \cup {Encode(Sample(Path("/sys/load/60s"), a, "integer", 1, <<>>,
                      MaxMessages)) : a \in (0 - 2)..MaxAsset}

InitMain ==
  /\ numCPU \in 1..MaxCPU
  /\ mainPc = "loop"
  /\ eventCount = 0
  /\ offsets = 0
  /\ inbox = [i \in 0..(numCPU - 1) |-> <<>>]
  /\ committed = <<>>
  /\ ticks = 0
  /\ IdleWorkers
  /\ IdleEval

\* what the ingest loop leaves alone
notMain ==
  <<feed, version, Config, Handlers, pc, discard, delay, Shutdown,
    InputClosed, Death, delivered, last, tasks, finished, commits, meters,
    updateEval, heartbeats, lookups, posts, units, internalInput, evalVars>>

\* case message := <-consumer.Messages(), the message not routed: it is
\* no metric, or an ignored one, or one too old
ConsumeSkip(value) ==
  LET offset == eventCount + 1
      r == Unmarshal(value)
  IN /\ mainPc = "loop"
     /\ eventCount < MaxMessages
     /\ IF r.err THEN TRUE
                 ELSE ignored(r.m.path) \/ tooOld(offset, r.m)
     /\ eventCount' = eventCount + 1
     /\ offsets' = offset
     /\ committed' = Append(committed, offset)
     /\ UNCHANGED <<numCPU, mainPc, inbox, ticks, notMain>>

\* case message := <-consumer.Messages(), the metric sent to a handler.
\* handlers[i] of an i that is no key is the zero Cyclone, whose Input is
\* nil: the send blocks for ever.  The offset kept with the metric in
\* inbox is not part of the program's state.
ConsumeRoute(value) ==
  LET offset == eventCount + 1
      r == Unmarshal(value)
  IN /\ mainPc = "loop"
     /\ eventCount < MaxMessages
     /\ ~r.err
     /\ ~ignored(r.m.path)
     /\ ~tooOld(offset, r.m)
     /\ eventCount' = eventCount + 1
     /\ LET i == handlerIndex(r.m.asset, numCPU) IN
          IF i \in DOMAIN inbox
            THEN /\ inbox' = [inbox EXCEPT
                               ![i] = Append(@, [m |-> r.m, offset |-> offset])]
                 /\ offsets' = offset
                 /\ committed' = Append(committed, offset)
                 /\ UNCHANGED mainPc
            ELSE /\ mainPc' = "blocked"
                 /\ UNCHANGED <<inbox, offsets, committed>>
     /\ UNCHANGED <<numCPU, ticks, notMain>>

\* case <-heartbeat
Tick ==
  /\ mainPc = "loop"
  /\ ticks < MaxTicks
  /\ ticks' = ticks + 1
  /\ inbox' = [inbox EXCEPT
                 ![0] = Append(@, [m |-> Sample(HeartbeatPath, 0, "", 0,
                                                <<>>, 0),
                                   offset |-> 0])]
  /\ UNCHANGED <<numCPU, mainPc, eventCount, offsets, committed, notMain>>

\* case <-c: break runloop, consumer.Close()
Interrupt ==
  /\ mainPc = "loop"
  /\ mainPc' = "closed"
  /\ UNCHANGED <<numCPU, eventCount, offsets, inbox, committed, ticks,
                 notMain>>

NextMain ==
  \/ \E value \in MainValues : ConsumeSkip(value)
  \/ \E value \in MainValues : ConsumeRoute(value)
  \/ Tick
  \/ Interrupt

SpecMain == InitMain /\ [][NextMain]_vars

(***************************************************************************)
(* Properties of the shard workers.                                        *)
(***************************************************************************)
\* the envelope of the latest call of process in worker w
Msg(w) == last[w].msg

\* worker w has just been through a call of process in this step
Processed(w) ==
  /\ delivered' = delivered + 1
  /\ last'[w].called
  /\ last'[w].msg.partition = w
  /\ last'[w].msg.offset = delivered'

\* the sample in a payload that parses
IsSample(value) == value.bytes = "json"

\* the acknowledgement of msg was sent this many times
AcksOf(msg) == Cardinality({i \in DOMAIN commits : commits[i] = Commit(msg)})

\* a goroutine that will send the acknowledgement of msg is still running
AckPending(msg) ==
  \E t \in tasks : t.kind = "commit" /\ t.ack = Commit(msg)

\* C1: every transport envelope a worker received is acknowledged exactly
\* once on its commit channel, whatever path process took: once process has
\* returned and no goroutine of the envelope is left, its acknowledgement
\* has been sent once.
C1_AckExactlyOnce ==
  \A w \in Shards :
    (last[w].called /\ Msg(w).commit = "chan" /\ ~AckPending(Msg(w)))
      => AcksOf(Msg(w)) = 1

\* C2: the acknowledgements of one partition are sent in the order of
\* receipt, their offsets increasing.
C2_AcksInReceiptOrder ==
  \A i, j \in DOMAIN commits :
    (i < j /\ commits[i].partition = commits[j].partition)
      => commits[i].offset < commits[j].offset

\* C3: every Use() of the in-flight tracker is followed by exactly one
\* Done(): once the goroutines that called Use() have all returned, the
\* tracker is back at zero.
C3_UsePairedWithDone ==
  \A w \in Shards :
    (\A t \in tasks : t.w = w => ~t.tracked) => delay[w] = 0

\* C5: an envelope whose payload does not parse is acknowledged and dropped;
\* the call is not fatal, and the worker goes on with its input.
C5_ParseFailureNotFatal ==
  \A w \in Shards :
    (last[w].called /\ Msg(w).value = Garbage)
      => /\ pc[w] \in {"run", "drain", "done"}
         /\ (AckPending(Msg(w)) \/ AcksOf(Msg(w)) = 1)

\* the sample of msg is one the configuration discards
Discarded(msg) ==
  IsSample(msg.value) /\ msg.value.m.path \in Config.DiscardMetrics

\* C6: a sample whose path is in the configured discard set is acknowledged
\* (a tracked commit goroutine is started for it) and counted as discarded,
\* and nothing else happens: no lookup, no derivation, no evaluation, no
\* alarm.
C6_DiscardOnlyAcks ==
  [][\A w \in Shards :
       (Processed(w) /\ Discarded(Msg(w)'))
         => /\ meters'.discarded = meters.discarded + 1
            /\ tasks' \ tasks =
                 {[kind |-> "commit", w |-> w, ack |-> Commit(Msg(w)'),
                   chan |-> Msg(w)'.commit, tracked |-> TRUE,
                   alarm |-> <<>>]}
            /\ delay'[w] = delay[w] + 1
            /\ lookups' = lookups
            /\ units' = units
            /\ internalInput' = internalInput
            /\ updateEval' = updateEval
            /\ meters'.evaluations = meters.evaluations
            /\ meters'.alarms = meters.alarms
            /\ meters'.processed = meters.processed
            /\ posts' = posts
            /\ pc'[w] = pc[w]]_vars

\* a discarded sample was acknowledged
C6_Witness ==
  \E w \in Shards :
    /\ last[w].called
    /\ Discarded(Msg(w))
    /\ meters.discarded = 1
    /\ AcksOf(Msg(w)) = 1

\* what the latest call of process would have done with testmode off
WithoutTestMode(w) ==
  process([Cyclone(w) EXCEPT !.TestMode = FALSE], Msg(w)',
          IF last'[w].answer = <<>>
            THEN [nil |-> TRUE, rules |-> {}, order |-> <<>>]
            ELSE CHOOSE thr \in LookupResults :
                   /\ thr.nil = last'[w].answer[1].nil
                   /\ thr.rules = last'[w].answer[1].rules)

\* C7: with testmode on no POST is issued and no alarm goroutine is started
\* or registered with the tracker, while the evaluations meter and the
\* per-rule updateEval advance as they do with testmode off.
C7_TestModeOnlySkipsDispatch ==
  [][/\ Config.TestMode =>
          /\ posts' = 0
          /\ \A t \in tasks' : t.kind # "dispatch"
          /\ meters'.alarms = 0
     /\ \A w \in Shards :
          Processed(w) =>
            LET off == WithoutTestMode(w) IN
              /\ meters'.evaluations = meters.evaluations + off.evals
              /\ updateEval' =
                   [id \in RuleIDs |->
                      updateEval[id] + IF id \in off.evaluated THEN 1 ELSE 0]
              /\ meters'.processed = meters.processed + off.processed
              /\ (Config.TestMode =>
                    delay'[w] = delay[w] + IF off.dispatched = {}
                                             THEN off.uses ELSE 0)]_vars

\* in testmode two rules were evaluated for one sample
C7_Witness ==
  /\ Config.TestMode
  /\ meters.evaluations = 1
  /\ updateEval["r1"] = 1
  /\ updateEval["r2"] = 1

\* the sample of msg is a heartbeat
Heartbeat(msg) == IsSample(msg.value) /\ msg.value.m.path = HeartbeatPath

\* C8: a heartbeat calls the heartbeat hook once and does nothing else: no
\* lookup, no alarm, no count as processed, no acknowledgement.
C8_HeartbeatOnlyBeats ==
  [][\A w \in Shards :
       (Processed(w) /\ Heartbeat(Msg(w)'))
         => /\ heartbeats'[w] = heartbeats[w] + 1
            /\ lookups' = lookups
            /\ tasks' = tasks
            /\ commits' = commits
            /\ delay' = delay
            /\ meters' = meters
            /\ updateEval' = updateEval
            /\ posts' = posts
            /\ units' = units]_vars

\* a heartbeat went through a worker
C8_Witness ==
  \E w \in Shards :
    last[w].called /\ Heartbeat(Msg(w)) /\ heartbeats[w] = 1 /\ commits = <<>>

\* C10: when the lookup fails, or answers with no rules, the sample is
\* acknowledged, no rule is evaluated, no alarm is dispatched and the worker
\* keeps running.
C10_LookupFailureAcked ==
  \A w \in Shards :
    (last[w].called /\ last[w].answer # <<>>
       /\ last[w].answer[1].rules = {})
      => /\ pc[w] \in {"run", "drain", "done"}
         /\ last[w].out.evaluated = {}
         /\ last[w].out.dispatched = {}
         /\ (AckPending(Msg(w)) \/ AcksOf(Msg(w)) = 1)


\* the places of run
RunPlaces == {"run", "death", "await", "drain", "blocked"}

\* a step of run in worker w
RunStep(w) ==
  \/ \E value \in Values, thr \in LookupResults : RunInput(w, value, thr)
  \/ RunClosedInput(w)
  \/ RunShutdown(w)
  \/ DeathSend(w)
  \/ AwaitShutdown(w)
  \/ \E value \in Values, thr \in LookupResults : DrainInput(w, value, thr)
  \/ DrainClosed(w)

\* C11: after the shutdown signal the worker goes from the run loop to the
\* drain loop, processes what still arrives with the errors of process
\* ignored, and terminates once its input is closed: it does not terminate
\* with the input open, a closed input read in the run loop neither ends
\* the worker nor is processed, and with the signal given and the input
\* closed the worker is never left without a step to take before it is done.
C11_DrainThenTerminate ==
  /\ [][\A w \in Shards :
          /\ (pc[w] = "run" /\ pc'[w] = "drain") => Shutdown
          /\ (pc[w] \in RunPlaces /\ pc'[w] = "done")
               => (pc[w] = "drain" /\ InputClosed[w])
          /\ (pc[w] = "drain" /\ Processed(w) /\ last'[w].out.err)
               => pc'[w] = "drain"
          /\ (pc[w] = "run" /\ InputClosed[w])
               => (pc'[w] \in {"run", "drain"} /\ ~Processed(w))]_vars
  /\ [](\A w \in Shards :
          (Shutdown /\ InputClosed[w] /\ pc[w] \in RunPlaces)
            => ENABLED RunStep(w))

\* the number of errors worker w has sent on the Death channel
Deaths(w) == Cardinality({i \in DOMAIN Death : Death[i] = w})

\* C12: when process returns an error in the run loop the worker sends it
\* on the Death channel once, waits for the shutdown signal and exits: it
\* processes no further envelope.
C12_FatalErrorEndsWorker ==
  /\ [](\A w \in Shards :
          /\ Deaths(w) <= 1
          /\ pc[w] = "await" => Deaths(w) = 1)
  /\ [][\A w \in Shards :
          /\ (Processed(w) /\ last'[w].out.err /\ pc[w] = "run")
               => pc'[w] = "death"
          /\ pc[w] = "death" => pc'[w] \in {"death", "await"}
          /\ (pc[w] = "await" /\ pc'[w] # "await") => Shutdown
          /\ Deaths(w) > 0 => ~Processed(w)]_vars

\* the alarm goroutines started in this step for rule id
NewAlarms(id) ==
  {t \in tasks' \ tasks : t.kind = "dispatch" /\ t.alarm[1].EventID = id}

\* the rule passes the gate for sample m: the sample is an internal one, or
\* its first tag is the rule's id
PassesGate(m, rule) ==
  \/ internalMetric(m.path)
  \/ (m.tags # <<>> /\ m.tags[1] = rule.ID)

\* the alarm events process dispatches for msg when rule is the only rule
Alone(w, rule) ==
  process(Cyclone(w), Msg(w)',
          [nil |-> FALSE, rules |-> {rule}, order |-> <<rule>>]).dispatched

\* C14: with testmode off, a sample with a non-empty rule set gets one
\* alarm event built and dispatched for every rule that passes the gate,
\* also at level 0, and none for a rule that does not pass it; the event of
\* a rule is the one dispatched when the rule is alone in the mapping,
\* whatever the iteration order.
C14_OneAlarmPerGatedRule ==
  [][\A w \in Shards :
       (Processed(w) /\ ~Config.TestMode /\ last'[w].out.sample # <<>>)
         => LET m == last'[w].out.sample[1]
                rules == last'[w].answer[1].rules
                gated == {r \in rules : PassesGate(m, r)}
            IN /\ \A r \in gated :
                    /\ Cardinality(NewAlarms(r.ID)) = 1
                    /\ {t.alarm[1] : t \in NewAlarms(r.ID)} = Alone(w, r)
                    /\ \E a \in last'[w].out.built : a.EventID = r.ID
               /\ \A r \in rules \ gated :
                    /\ NewAlarms(r.ID) = {}
                    /\ \A a \in last'[w].out.built : a.EventID # r.ID
               /\ meters'.alarms = meters.alarms + Cardinality(gated)
               /\ Cardinality({t \in tasks' \ tasks : t.kind = "dispatch"})
                    = Cardinality(gated)]_vars

\* of two rules one passed the gate, by the sample's first tag, and its
\* alarm was dispatched; and a level 0 alarm has been dispatched
C14_Witness ==
  /\ ~Config.TestMode
  /\ \E w \in Shards :
       /\ last[w].called
       /\ last[w].out.evaluated = {"r1"}
       /\ Cardinality(last[w].out.dispatched) = 1
  /\ \E t \in tasks : t.kind = "dispatch" /\ t.alarm[1].Level = 0

\* C15: every derived disk sample sent to internalInput is taken from it
\* again by the same worker: the worker is never stuck in the send, and no
\* derived sample is still queued when the worker has returned.
C15_ReinjectedAreTaken ==
  \A w \in Shards :
    /\ pc[w] # "blocked"
    /\ pc[w] = "done" => internalInput[w] = <<>>

\* the types the switch of lvlloop compares
ComparedTypes == {"integer", "long", "real"}

\* C16: for a sample whose declared type is none of integer, long and real
\* every rule is skipped: no alarm event is built or dispatched for it,
\* not even an "Ok." event of level 0, and the worker keeps running.
C16_OtherTypeSkipsEveryRule ==
  [][\A w \in Shards :
       (Processed(w) /\ last'[w].out.sample # <<>>
          /\ last'[w].out.sample[1].type \notin ComparedTypes)
         => /\ last'[w].out.built = {}
            /\ last'[w].out.dispatched = {}
            /\ {t \in tasks' \ tasks : t.kind = "dispatch"} = {}
            /\ pc'[w] = pc[w]]_vars

\* the paths whose samples feed a derivation unit
DerivationSources == {Path("/sys/cpu/ctx")} \cup CPUPaths \cup MemPaths
                       \cup DiskPaths

\* C18: the raw sample of a derivation source is never looked up or
\* evaluated: a call of process asks the lookup at most once, with the
\* lookup id of the derived sample, and not at all when the unit emits
\* nothing, nor for any disk sample, with or without tags.
C18_OnlyDerivedIsLookedUp ==
  [][\A w \in Shards :
       (Processed(w) /\ IsSample(last'[w].msg.value)
          /\ Unmarshal(last'[w].msg.value).m.path \in DerivationSources)
         => LET raw == Unmarshal(last'[w].msg.value).m
                out == last'[w].out
                emitted == derive(Cyclone(w), raw).m
            IN /\ lookups' = lookups + Len(out.lookups)
               /\ Len(out.lookups) <= 1
               /\ \A i \in DOMAIN out.lookups :
                    /\ out.lookups[i] # LookupID(raw)
                    /\ emitted # <<>>
                    /\ out.lookups[i] = LookupID(emitted[1])
               /\ \A i \in DOMAIN out.sample : out.sample[i] # raw
               /\ raw.path \in DiskPaths =>
                    /\ out.lookups = <<>>
                    /\ out.evals = 0
               /\ emitted = <<>> =>
                    /\ out.lookups = <<>>
                    /\ out.evals = 0
                    /\ out.built = {}]_vars

\* the second context switch sample of an asset made the unit emit, and the
\* derived sample was looked up
C18_Witness ==
  \E w \in Shards :
    /\ last[w].called
    /\ IsSample(last[w].msg.value)
    /\ Unmarshal(last[w].msg.value).m.path = Path("/sys/cpu/ctx")
    /\ last[w].out.lookups
         = <<<<1, Path("cpu.ctx.per.second")>>>>
    /\ lookups = 1

\* the unit map and the key a sample's path and asset select, if any
UnitOf(m) ==
  IF m.path = Path("/sys/cpu/ctx") THEN <<[kind |-> "ctx", key |-> m.asset]>>
  ELSE IF m.path \in CPUPaths THEN <<[kind |-> "cpu", key |-> m.asset]>>
  ELSE IF m.path \in MemPaths THEN <<[kind |-> "mem", key |-> m.asset]>>
  ELSE IF m.path \in DiskPaths /\ m.tags # <<>>
    THEN <<[kind |-> "dsk", key |-> <<m.asset, m.tags[1]>>]>>
  ELSE <<>>

\* the unit maps a and b are the same but for the unit of the keys in keep
SameBut(a, b, keep) ==
  /\ DOMAIN a \subseteq DOMAIN b
  /\ DOMAIN b \subseteq DOMAIN a \cup keep
  /\ \A k \in DOMAIN a \ keep : b[k] = a[k]

\* the derivation state of worker w changes in the units of sel only
OnlyChanges(w, sel) ==
  /\ SameBut(units[w].ctx, units'[w].ctx,
             {s.key : s \in {t \in sel : t.kind = "ctx"}})
  /\ SameBut(units[w].cpu, units'[w].cpu,
             {s.key : s \in {t \in sel : t.kind = "cpu"}})
  /\ SameBut(units[w].mem, units'[w].mem,
             {s.key : s \in {t \in sel : t.kind = "mem"}})
  /\ SameBut(units[w].dsk, units'[w].dsk,
             {s.key : s \in {t \in sel : t.kind = "dsk"}})

\* C19: processing a sample of asset A changes only the derivation state
\* of A in the unit of the sample's path, for a disk sample only the entry
\* of A and the mountpoint in tags[0]; a heartbeat, an empty or unparseable
\* payload, a disk sample without tags and a sample of another path change
\* no derivation state, and neither does any other step.
C19_DerivationFrame ==
  [][\A w \in Shards :
       IF Processed(w) /\ IsSample(last'[w].msg.value)
            /\ Unmarshal(last'[w].msg.value).m.path # HeartbeatPath
         THEN LET sel == UnitOf(Unmarshal(last'[w].msg.value).m)
              IN OnlyChanges(w, {sel[i] : i \in DOMAIN sel})
         ELSE OnlyChanges(w, {})]_vars

\* the worker keeps the units of two assets and of two mountpoints
C19_Witness ==
  \E w \in Shards :
    \/ Cardinality(DOMAIN units[w].ctx) = 2
    \/ Cardinality(DOMAIN units[w].dsk) = 2

\* C22: a heartbeat never causes a send on a commit channel and never
\* leaves a task registered in the in-flight tracker, also when the
\* heartbeat path is listed in the configured discard set: the step of
\* process for a heartbeat starts no goroutine and registers nothing, and
\* no goroutine is ever sending on the commit channel a heartbeat lacks.
C22_HeartbeatNeverAcked ==
  /\ [](\A t \in tasks : t.chan # "nil")
  /\ [][\A w \in Shards :
          (Processed(w) /\ Heartbeat(Msg(w)'))
            => /\ tasks' = tasks
               /\ delay' = delay
               /\ commits' = commits]_vars

\* C23: once the shutdown signal is given and the input of a worker is
\* closed, the worker eventually terminates, also when both workers have
\* reported a fatal error: none stays blocked for ever.
C23_WorkersTerminate ==
  \A w \in Shards :
    (Shutdown /\ InputClosed[w]) ~> (pc[w] = "done")

(***************************************************************************)
(* Properties of the level scan.                                           *)
(***************************************************************************)
\* the value v (thousandths for a real) stands in relation pred to thr
Holds(pred, type, v, thr) ==
  LET t == IF type = "real" THEN thr * Milli ELSE thr IN
  \/ pred = "<" /\ v < t
  \/ pred = "<=" /\ v <= t
  \/ pred = "==" /\ v = t
  \/ pred = ">=" /\ v >= t
  \/ pred = ">" /\ v > t
  \/ pred = "!=" /\ v # t

\* the present levels of the rule whose threshold the sample breaks
BrokenLevels ==
  {l \in DOMAIN evRule.Thresholds :
     Holds(evRule.Predicate, evM.type, evM.val, evRule.Thresholds[l])}

\* C4: the level selected for a gated rule is the greatest present level
\* whose threshold the sample value breaks under the rule's predicate, and
\* "0" when no present level is broken; absent levels do not matter.
C4_GreatestBrokenLevel ==
  evOut.done =>
    /\ BrokenLevels = {} => evOut.scan.alarmLevel = "0"
    /\ BrokenLevels # {} =>
         /\ evOut.scan.alarmLevel \in BrokenLevels
         /\ \A l \in BrokenLevels :
              ParseInt(l) <= ParseInt(evOut.scan.alarmLevel)
    /\ evOut.event.Level = ParseInt(evOut.scan.alarmLevel)

\* two present levels are broken, and a third level in between is absent
C4_Witness ==
  /\ evOut.done
  /\ Cardinality(BrokenLevels) = 2
  /\ evOut.scan.alarmLevel \notin {"0", "9"}
  /\ \E l \in Levels \ DOMAIN evRule.Thresholds :
       ParseInt(l) > ParseInt(evOut.scan.alarmLevel)

\* the comparison of the sample with the rule's threshold of level l
ComparisonAt(l) ==
  IF evM.type = "real"
    THEN cmpFlp(evRule.Predicate, evM.val, evRule.Thresholds[l])
    ELSE cmpInt(evRule.Predicate, evM.val, evRule.Thresholds[l])

\* C17: an alarm event has the message "Ok." exactly when its level is 0;
\* at a level l > 0 the message prints the rule's threshold of level l and
\* the value as the comparison that broke level l returned it; an empty
\* oncall is replaced by "No oncall information available".
C17_MessageMatchesLevel ==
  evOut.done =>
    LET e == evOut.event IN
    /\ (e.Message.text = "Ok.") <=> (e.Level = 0)
    /\ e.Level > 0 =>
         \E l \in DOMAIN evRule.Thresholds :
           /\ ParseInt(l) = e.Level
           /\ ComparisonAt(l).broken
           /\ e.Message.threshold = evRule.Thresholds[l]
           /\ e.Message.fVal = ComparisonAt(l).fVal
           /\ e.Message.predicate = evRule.Predicate
           /\ e.Message.path = evM.path
    /\ e.Oncall = IF evRule.Oncall = ""
                    THEN "No oncall information available"
                    ELSE evRule.Oncall
    /\ e.Oncall # ""

\* an event of a level above 0 for a rule with two different thresholds and
\* no oncall
C17_Witness ==
  /\ evOut.done
  /\ evOut.event.Level > 0
  /\ evRule.Oncall = ""
  /\ evOut.event.Oncall = "No oncall information available"
  /\ \E l \in DOMAIN evRule.Thresholds :
       evRule.Thresholds[l] # evOut.event.Message.threshold

(***************************************************************************)
(* Properties of the comparisons.                                          *)
(***************************************************************************)
\* C13 as stated: cmpInt on an integer value and cmpFlp on the same value
\* as a real return the same, for every predicate, value and threshold.
C13_CmpIntEqualsCmpFlp ==
  evOut.done => evOut.int = evOut.flp

\* C13 as amended: the two comparisons return the same verdict; for a known
\* predicate the representations are the "%d" and the "%.3f" text of the
\* value, for another predicate both return false and the empty string.
C13_SameVerdict ==
  evOut.done =>
    /\ evOut.int.broken = evOut.flp.broken
    /\ evRule.Predicate \in KnownPredicates =>
         /\ evOut.int.fVal = FmtD(evM.val)
         /\ evOut.flp.fVal = FmtF3(ToReal(evM.val))
    /\ evRule.Predicate \notin KnownPredicates =>
         /\ evOut.int = [broken |-> FALSE, fVal |-> FmtNone]
         /\ evOut.flp = [broken |-> FALSE, fVal |-> FmtNone]

\* a negative value equal to its threshold was compared under >=
C13_Witness ==
  /\ evOut.done
  /\ evRule.Predicate = ">="
  /\ evM.val < 0
  /\ evM.val = evRule.Thresholds["1"]
  /\ evOut.int.broken
  /\ evOut.flp.broken

(***************************************************************************)
(* Properties of the router.                                               *)
(***************************************************************************)
\* the samples handler i received from the router, heartbeats left out
Routed(i) ==
  {k \in DOMAIN inbox[i] : inbox[i][k].m.path # HeartbeatPath}

\* C9: the router hands every sample it routes to the handler whose index
\* is the asset id modulo the number of handlers, hence the samples of one
\* asset are all with one handler; and a handler received its samples in
\* the order in which the ingest loop consumed them.
C9_RoutedByAssetInOrder ==
  /\ [][\A value \in MainValues :
          ConsumeRoute(value) =>
            LET m == Unmarshal(value).m
                i == m.asset % numCPU
            IN inbox'[i] = Append(inbox[i], [m |-> m, offset |-> eventCount'])
       ]_vars
  /\ [](\A i, j \in DOMAIN inbox : \A k \in Routed(i), l \in Routed(j) :
          inbox[i][k].m.asset = inbox[j][l].m.asset => i = j)
  /\ [](\A i \in DOMAIN inbox : \A k, l \in Routed(i) :
          k < l => inbox[i][k].offset < inbox[i][l].offset)
\* the ingest loop does not route the message: it is no metric, or its path
\* is ignored, or it is older than the maximum age at time now
NotRouted(value, now) ==
  LET r == Unmarshal(value) IN
  IF r.err THEN TRUE ELSE ignored(r.m.path) \/ r.m.ts < now - MetricsMaxAge

\* C20: the ingest loop commits every message it consumed exactly once and
\* in receipt order; a message that is no metric, is ignored or is too old
\* is committed without being sent to a handler, and every other message
\* is sent to exactly one handler before it is committed.
C20_CommittedOnceInOrder ==
  /\ [](committed = [k \in 1..eventCount |-> k])
  /\ [][\A value \in MainValues :
          (ConsumeSkip(value) \/ ConsumeRoute(value)) =>
            /\ committed' = Append(committed, eventCount')
            /\ IF NotRouted(value, eventCount')
                 THEN inbox' = inbox
                 ELSE \E i \in DOMAIN inbox :
                        inbox' = [inbox EXCEPT
                                    ![i] = Append(@, [m |-> Unmarshal(value).m,
                                                      offset |-> eventCount'])]
       ]_vars

\* C21: for every asset id, negative ones included, the index the router
\* computes lies in 0..numCPU-1 and names a started handler, so that the
\* send of the sample to that handler completes and the loop goes on.
C21_IndexNamesHandler ==
  /\ [](mainPc # "blocked")
  /\ [][\A value \in MainValues :
          ConsumeRoute(value) =>
            LET i == handlerIndex(Unmarshal(value).m.asset, numCPU)
            IN /\ i \in 0..(numCPU - 1)
               /\ i \in DOMAIN inbox
               /\ Len(inbox'[i]) = Len(inbox[i]) + 1]_vars
====
